---- MODULE Spec2Model ----
(***************************************************************************)
(* zinfer: parsing of `zfs get all` dumps into a forest of pools and       *)
(* datasets (parseGetAll), inheritance resolution (fixInheritance) and     *)
(* synthesis of `zpool create` / `zfs create` argument lists.              *)
(*                                                                         *)
(* Strings.  A dataset name or a property value is a sequence of path      *)
(* segments: "foo/a/b" is <<"foo", "a", "b">>, the empty string is <<>>.   *)
(* Property names, source tags and path segments are atomic strings.       *)
(***************************************************************************)
EXTENDS Integers, Sequences, FiniteSets, TLC

(***************************************************************************)
(* Static tables (flags.go).                                               *)
(***************************************************************************)
statusProperties ==
    { "type", "creation", "used", "available", "referenced", "rekeydate",
      "compressratio", "mounted", "origin", "version", "defer_destroy",
      "userrefs", "usedbysnapshots", "usedbydataset", "usedbychildren",
      "usedbyrefreservation", "refcompressratio", "written", "clones",
      "logicalused", "logicalreferenced", "encryptionroot", "keystatus",
      "size", "capacity", "health", "dedupratio", "free", "allocated",
      "expandsize", "freeing", "fragmentation", "leaked", "checkpoint" }

ignoreProperties == { "readonly" }

encryptionRoot == "encryptionroot"

encryptionInheritedProperties ==
    { "encryptionroot", "encryption", "keylocation", "keyformat",
      "pbkdf2iters", "keystatus" }

encryptionLocalProperties == { "encryption" }

FeatureDisabled == <<"disabled">>
FeatureEnabled == <<"enabled">>
FeatureActive == <<"active">>

(***************************************************************************)
(* The property names of the model, in ascending byte order: Go's string   *)
(* comparison on these names is the order of this list.                    *)
(***************************************************************************)
PropOrder ==
    << "comment", "compression", "encryption", "encryptionroot", "feature@a",
       "feature@d", "feature@e", "keyformat", "keylocation", "keystatus",
       "mounted", "pbkdf2iters", "readonly", "size" >>

PropNames == { PropOrder[k] : k \in 1..Len(PropOrder) }

\* The names of the model that start with "feature@".
FeaturePrefixed == { "feature@a", "feature@d", "feature@e" }

\* The path segments of the model that contain the rune '@'.
AtSegments == { "fizz@buzz" }

Locations == { "Default", "Local", "Inherited", "Readonly", "Temporary" }

(***************************************************************************)
(* Property model.  A *Property is the pair (dataset name, property name)  *)
(* of the map entry that holds it; NoRef is the nil pointer.               *)
(***************************************************************************)
NoRef == [set |-> <<>>, prop |-> ""]

Ref(setName, propName) == [set |-> setName, prop |-> propName]

PropertySource(loc, parent, inherited) ==
    [Location |-> loc, Parent |-> parent, Inherited |-> inherited]

Property(name, value, src) ==
    [Name |-> name, localValue |-> value, Source |-> src]

\* Result of a Value() call whose recursion never returns (stack exhaustion).
Diverges == <<"<", "stack overflow", ">">>

\* Property.Value() on the property ref of the index, at most fuel links deep.
RECURSIVE ValueAt(_, _, _)
ValueAt(index, ref, fuel) ==
    LET p == index[ref.set].Properties[ref.prop]
    IN  IF p.Source.Location # "Inherited" THEN p.localValue
        ELSE IF fuel = 0 THEN Diverges
        ELSE ValueAt(index, p.Source.Inherited, fuel - 1)

\* Property.Value() on a property record p whose links lead into index.  A
\* chain that ends visits every dataset at most once, so one that is longer
\* than the number of datasets never ends.
Value(index, p) ==
    IF p.Source.Location = "Inherited"
    THEN ValueAt(index, p.Source.Inherited, Cardinality(DOMAIN index))
    ELSE p.localValue

isParent(self, parent) ==
    /\ parent # <<>>
    /\ Len(self) > Len(parent)
    /\ SubSeq(self, 1, Len(parent)) = parent

statusOnly(p) ==
    \/ p.Source.Location = "Temporary"
    \/ p.Name \in statusProperties
    \/ p.Name \in ignoreProperties

nonEncryptionInherit(p) ==
    /\ p.Name \notin encryptionInheritedProperties
    /\ ~statusOnly(p)

isFeature(p) == p.Name \in FeaturePrefixed

isRootDataset(name) == Len(name) <= 1

\* path.Dir of a name that has a separator.
Dir(name) == SubSeq(name, 1, Len(name) - 1)

ContainsAt(name) == \E k \in 1..Len(name) : name[k] \in AtSegments

(***************************************************************************)
(* Command tokens.  TokLit is a fixed word, TokOpt the flag "-o"/"-O",     *)
(* TokPair the argument "name=value", TokName a positional name.           *)
(***************************************************************************)
TokLit(s) == [t |-> "lit", s |-> s, v |-> <<>>]
TokOpt(o) == [t |-> "opt", s |-> o, v |-> <<>>]
TokPair(name, value) == [t |-> "pair", s |-> name, v |-> value]
TokName(name) == [t |-> "name", s |-> "", v |-> name]

FlagOptions(minimal) == [MinimalFeatures |-> minimal]

defaultFlagOpts == FlagOptions(FALSE)

\* flag without its test of the source.
flagAnySource(p, o, opts) ==
    IF statusOnly(p) THEN <<>>
    ELSE IF isFeature(p) /\ ( \/ p.localValue = FeatureDisabled
                              \/ (opts.MinimalFeatures /\ p.localValue = FeatureEnabled) )
    THEN <<>>
    ELSE LET value == IF isFeature(p) /\ p.localValue = FeatureActive
                      THEN FeatureEnabled ELSE p.localValue
         IN  << TokOpt(o), TokPair(p.Name, value) >>

\* Property.flag
flag(p, o, opts) ==
    IF statusOnly(p) \/ p.Source.Location = "Default" \/ p.Source.Location = "Inherited"
    THEN <<>>
    ELSE IF isFeature(p) /\ ( \/ p.localValue = FeatureDisabled
                              \/ (opts.MinimalFeatures /\ p.localValue = FeatureEnabled) )
    THEN <<>>
    ELSE LET value == IF isFeature(p) /\ p.localValue = FeatureActive
                      THEN FeatureEnabled ELSE p.localValue
         IN  << TokOpt(o), TokPair(p.Name, value) >>

Pos(name) == CHOOSE k \in 1..Len(PropOrder) : PropOrder[k] = name

\* Less with the comparison turned round.
Greater(a, b) == Pos(a) > Pos(b)

\* sortedProperties.Less
Less(a, b) == Pos(a) < Pos(b)

\* sort.Sort(sortedProperties) over the keys of a property map.
RECURSIVE sortedProperties(_)
sortedProperties(names) ==
    IF names = {} THEN <<>>
    ELSE LET m == CHOOSE x \in names : \A y \in names : ~Less(y, x)
         IN  <<m>> \o sortedProperties(names \ {m})

RECURSIVE flagsOf(_, _, _, _, _)
flagsOf(props, sorted, o, opts, encryptedChild) ==
    IF sorted = <<>> THEN <<>>
    ELSE LET p == props[Head(sorted)]
             skip == /\ encryptedChild
                     /\ p.Name \in encryptionInheritedProperties
                     /\ p.Name \notin encryptionLocalProperties
         IN  (IF skip THEN <<>> ELSE flag(p, o, opts))
             \o flagsOf(props, Tail(sorted), o, opts, encryptedChild)

\* Dataset.flags without the encrypted-child rule.
DatasetFlagsUnsuppressed(index, d, o) ==
    flagsOf(d.Properties, sortedProperties(DOMAIN d.Properties), o, defaultFlagOpts, FALSE)

\* Dataset.flags: the dataset d of a pool whose name index is index.
DatasetFlags(index, d, o) ==
    LET encryptedChild ==
            /\ encryptionRoot \in DOMAIN d.Properties
            /\ Value(index, d.Properties[encryptionRoot]) # d.Name
    IN  flagsOf(d.Properties, sortedProperties(DOMAIN d.Properties), o,
                defaultFlagOpts, encryptedChild)

\* Pool.flags
PoolFlags(pool, opts) ==
    flagsOf(pool.Properties, sortedProperties(DOMAIN pool.Properties), "o", opts, FALSE)


(***************************************************************************)
(* Entities.                                                               *)
(***************************************************************************)
EmptyMap == [x \in {} |-> NoRef]

Put(m, k, x) == [y \in DOMAIN m \cup {k} |-> IF y = k THEN x ELSE m[y]]

Dataset(name, props) == [Name |-> name, Properties |-> props]

\* The Dataset value parseDataset starts from: no name, no property.
NewSet == Dataset(<<>>, EmptyMap)

\* Ordered holds the names of the datasets it points to, Index the datasets.
Pool(name, props, ordered, index) ==
    [Name |-> name, Properties |-> props, Ordered |-> ordered, Index |-> index]

\* The nil *Pool.
NoPool == Pool(<<>>, EmptyMap, <<>>, EmptyMap)

\* newPool, for a root name
newPool(name) == Pool(name, EmptyMap, <<>>, EmptyMap)

\* addDataset without its test of the index.
addDatasetNeverFails(p, d) == FALSE

\* Pool.addDataset: the pool with d added, when its name is not indexed yet.
addDatasetFails(p, d) == d.Name \in DOMAIN p.Index

addDataset(p, d) ==
    [p EXCEPT !.Ordered = Append(p.Ordered, d.Name),
              !.Index = Put(p.Index, d.Name, d)]

\* Pool.getAncestors: the names of the ancestors, nearest first; Failed in
\* the place of the first one the index lacks.
Failed == <<"unable to locate ancestor">>

RECURSIVE ancestorsFrom(_, _)
ancestorsFrom(index, name) ==
    IF name \notin DOMAIN index THEN <<Failed>>
    ELSE IF isRootDataset(name) THEN <<name>>
    ELSE <<name>> \o ancestorsFrom(index, Dir(name))

getAncestors(p, d) ==
    IF isRootDataset(d.Name) THEN <<>> ELSE ancestorsFrom(p.Index, Dir(d.Name))

(***************************************************************************)
(* Lines of a dump, as the property regexp splits them.  kind is "blank"   *)
(* for a line that is empty after trimming, "bad" for one the regexp does  *)
(* not match, "row" for a match with its five groups.                      *)
(***************************************************************************)
Row(setName, prop, value, raw, parent) ==
    [kind |-> "row", set |-> setName, prop |-> prop, value |-> value,
     raw |-> raw, parent |-> parent]

BlankLine == [kind |-> "blank", set |-> <<>>, prop |-> "", value |-> <<>>,
              raw |-> "", parent |-> <<>>]

BadLine == [kind |-> "bad", set |-> <<"xyz">>, prop |-> "", value |-> <<>>,
            raw |-> "", parent |-> <<>>]

\* parseZpoolSource: err is "" and src the source, or err is the error.
parseZpoolSource(name, raw) ==
    CASE raw = "-" -> [err |-> "", src |-> PropertySource("Readonly", <<>>, NoRef)]
      [] raw = "default" -> [err |-> "", src |-> PropertySource("Default", <<>>, NoRef)]
      [] raw = "local" -> [err |-> "", src |-> PropertySource("Local", <<>>, NoRef)]
      [] OTHER -> [err |-> "property source is invalid",
                   src |-> PropertySource("Default", <<>>, NoRef)]

\* parseSource without the comparison of the value with the parent's.
parseSourceAnyValue(name, value, raw, parent, p) ==
    IF name \in statusProperties /\ raw # "-"
    THEN [err |-> "expected to be readonly", src |-> [Location |-> "Default", Parent |-> <<>>,
                                                     Inherited |-> [set |-> <<>>, prop |-> ""]]]
    ELSE IF raw = "inherited from "
    THEN IF parent \notin DOMAIN p.Index
         THEN [err |-> "parent not found", src |-> [Location |-> "Default", Parent |-> <<>>,
                                                   Inherited |-> [set |-> <<>>, prop |-> ""]]]
         ELSE IF name \notin DOMAIN p.Index[parent].Properties
         THEN [err |-> "parent does not contain property",
               src |-> [Location |-> "Default", Parent |-> <<>>,
                        Inherited |-> [set |-> <<>>, prop |-> ""]]]
         ELSE [err |-> "",
               src |-> [Location |-> "Inherited", Parent |-> parent,
                        Inherited |-> [set |-> parent, prop |-> name]]]
    ELSE [err |-> "", src |-> [Location |-> "Readonly", Parent |-> <<>>,
                               Inherited |-> [set |-> <<>>, prop |-> ""]]]

\* parseSource: err is "" and src the source, or err is the error.
parseSource(name, value, raw, parent, p) ==
    IF name \in statusProperties /\ raw # "-"
    THEN [err |-> "expected to be readonly", src |-> PropertySource("Default", <<>>, NoRef)]
    ELSE CASE raw = "-" -> [err |-> "", src |-> PropertySource("Readonly", <<>>, NoRef)]
           [] raw = "default" -> [err |-> "", src |-> PropertySource("Default", <<>>, NoRef)]
           [] raw = "local" -> [err |-> "", src |-> PropertySource("Local", <<>>, NoRef)]
           [] raw = "temporary" -> [err |-> "", src |-> PropertySource("Temporary", <<>>, NoRef)]
           [] raw = "inherited from " ->
                IF parent \notin DOMAIN p.Index
                THEN [err |-> "parent not found", src |-> PropertySource("Default", <<>>, NoRef)]
                ELSE IF name \notin DOMAIN p.Index[parent].Properties
                THEN [err |-> "parent does not contain property",
                      src |-> PropertySource("Default", <<>>, NoRef)]
                ELSE IF value # Value(p.Index, p.Index[parent].Properties[name])
                THEN [err |-> "does not match value on parent",
                      src |-> PropertySource("Default", <<>>, NoRef)]
                ELSE [err |-> "",
                      src |-> PropertySource("Inherited", p.Index[parent].Name,
                                             Ref(parent, name))]
           [] OTHER -> [err |-> "property source is invalid",
                        src |-> PropertySource("Default", <<>>, NoRef)]


(***************************************************************************)
(* fixInheritance, one dataset of one pool at a time.  A pass yields       *)
(* [out, err, index]: out is "ok" with the index after its rewrites,       *)
(* "err" with the error fixInheritance returns, or "panic" when the pass   *)
(* dereferences nil or never returns from Value().                         *)
(***************************************************************************)
PassOk(index) == [out |-> "ok", err |-> "", index |-> index]
PassErr(e, index) == [out |-> "err", err |-> e, index |-> index]
PassPanic(index) == [out |-> "panic", err |-> "", index |-> index]

SetSource(index, setName, propName, src) ==
    [index EXCEPT ![setName].Properties[propName].Source = src]

\* The names of the encryption-inherited table that rootSet or set lacks.
missingEncryption(rootSet, set) ==
    { n \in encryptionInheritedProperties :
        n \notin DOMAIN rootSet.Properties \/ n \notin DOMAIN set.Properties }

\* The loop over the encryption-inherited table leaving nothing untouched.
keptNothing(index, rootSet, set) == {}

\* The names the loop over the encryption-inherited table leaves untouched:
\* those of the may-differ table whose two values differ.
keptEncryption(index, rootSet, set) ==
    { n \in encryptionInheritedProperties \cap encryptionLocalProperties :
        Value(index, rootSet.Properties[n]) # Value(index, set.Properties[n]) }

\* The names of the may-differ table whose comparison never returns.
stuckEncryption(index, rootSet, set) ==
    { n \in (encryptionInheritedProperties \cap encryptionLocalProperties)
              \ missingEncryption(rootSet, set) :
        \/ Value(index, rootSet.Properties[n]) = Diverges
        \/ Value(index, set.Properties[n]) = Diverges }

\* inheritEncryption writing a Local source in place of the link to the
\* encryption root.
inheritEncryptionAsLocal(index, rootSet, set) ==
    [index EXCEPT ![set.Name].Properties =
        [n \in DOMAIN set.Properties |->
            IF /\ n \in encryptionInheritedProperties
               /\ n \notin keptEncryption(index, rootSet, set)
            THEN [set.Properties[n] EXCEPT !.Source = PropertySource("Local", <<>>, NoRef)]
            ELSE set.Properties[n]]]

inheritEncryption(index, rootSet, set) ==
    [index EXCEPT ![set.Name].Properties =
        [n \in DOMAIN set.Properties |->
            IF /\ n \in encryptionInheritedProperties
               /\ n \notin keptEncryption(index, rootSet, set)
            THEN [set.Properties[n] EXCEPT
                    !.Source = PropertySource("Inherited", rootSet.Name, Ref(rootSet.Name, n))]
            ELSE set.Properties[n]]]

\* The encryption-root pass on the dataset named setName.  The table is a
\* map, walked in any order: when one name is missing and the comparison of
\* another never returns, either may come first (firstMissing picks).
encryptionPass(index, setName, firstMissing) ==
    LET set == index[setName]
        er == set.Properties[encryptionRoot]
        erv == Value(index, er)
    IN  IF encryptionRoot \notin DOMAIN set.Properties THEN PassOk(index)
        ELSE IF erv = <<>> \/ erv = set.Name THEN PassOk(index)
        ELSE IF erv \notin DOMAIN index THEN PassErr("encryptionroot not found", index)
        ELSE LET rootSet == index[erv]
             IN  IF encryptionRoot \notin DOMAIN rootSet.Properties
                 THEN PassPanic(index)
                 ELSE IF Value(index, rootSet.Properties[encryptionRoot]) # erv
                 THEN PassErr("encryptionroot is not self-rooted", index)
                 ELSE IF ~isParent(set.Name, rootSet.Name) THEN PassOk(index)
                 ELSE IF stuckEncryption(index, rootSet, set) # {}
                         /\ (missingEncryption(rootSet, set) = {} \/ ~firstMissing)
                 THEN PassPanic(index)
                 ELSE IF missingEncryption(rootSet, set) # {}
                 THEN PassErr("encrypted dataset is missing property", index)
                 ELSE PassOk(inheritEncryption(index, rootSet, set))

\* The farthest ancestor that carries the property, or <<>> when none does.
RECURSIVE farthestCarrying(_, _, _)
farthestCarrying(index, ancestors, propName) ==
    IF ancestors = <<>> THEN <<>>
    ELSE LET rest == farthestCarrying(index, Tail(ancestors), propName)
         IN  IF rest # <<>> THEN rest
             ELSE IF propName \in DOMAIN index[Head(ancestors)].Properties
             THEN Head(ancestors)
             ELSE <<>>

\* The nearest ancestor (a name of ancestors) that carries the property, or
\* <<>> when none does.
RECURSIVE firstCarrying(_, _, _)
firstCarrying(index, ancestors, propName) ==
    IF ancestors = <<>> THEN <<>>
    ELSE IF propName \in DOMAIN index[Head(ancestors)].Properties THEN Head(ancestors)
    ELSE firstCarrying(index, Tail(ancestors), propName)

\* ancestorCandidates without the test of the source: properties of any
\* source are compared with the ancestor's.
ancestorCandidatesAnySource(index, set, ancestors) ==
    { n \in DOMAIN set.Properties :
        /\ set.Properties[n].Source.Location # "Inherited"
        /\ nonEncryptionInherit(set.Properties[n])
        /\ firstCarrying(index, ancestors, n) # <<>> }

\* The properties of set the ancestor pass looks at, and for each the
\* ancestor it is compared with.
ancestorCandidates(index, set, ancestors) ==
    { n \in DOMAIN set.Properties :
        /\ set.Properties[n].Source.Location = "Readonly"
        /\ nonEncryptionInherit(set.Properties[n])
        /\ firstCarrying(index, ancestors, n) # <<>> }

\* The ancestor pass on the dataset named setName of pool p.
ancestorPass(p, setName) ==
    LET index == p.Index
        set == index[setName]
        ancestors == getAncestors(p, set)
        cand == ancestorCandidates(index, set, ancestors)
        parentProp(n) == index[firstCarrying(index, ancestors, n)].Properties[n]
    IN  IF isRootDataset(set.Name) THEN PassOk(index)
        ELSE IF \E k \in 1..Len(ancestors) : ancestors[k] = Failed
        THEN PassErr("unable to locate ancestor", index)
        ELSE IF \E n \in cand : Value(index, parentProp(n)) = Diverges
        THEN PassPanic(index)
        ELSE PassOk(
            [index EXCEPT ![setName].Properties =
                [n \in DOMAIN set.Properties |->
                    IF n \in cand /\ Value(index, parentProp(n)) = Value(index, set.Properties[n])
                    THEN [set.Properties[n] EXCEPT
                            !.Source = PropertySource("Inherited",
                                           firstCarrying(index, ancestors, n),
                                           Ref(firstCarrying(index, ancestors, n), n))]
                    ELSE set.Properties[n]]])

\* The body of fixInheritance's inner loop for one dataset: the encryption
\* pass, then the ancestor pass on what it left.
fixDataset(p, setName, firstMissing) ==
    LET e == encryptionPass(p.Index, setName, firstMissing)
    IN  IF e.out # "ok" THEN e
        ELSE ancestorPass([p EXCEPT !.Index = e.index], setName)


(***************************************************************************)
(* Inputs.  A dump is a sequence of chunks of lines taken from the menu of *)
(* its profile; parseGetAll's second argument is one of the property maps  *)
(* of the profile.                                                         *)
(***************************************************************************)
MaxChunks == 4
MaxRuns == 2

foo == <<"foo">>
fooA == <<"foo", "a">>
fooAB == <<"foo", "a", "b">>
fooAC == <<"foo", "a", "c">>
fooB == <<"foo", "b">>
bar == <<"bar">>
snapshot == <<"fizz@buzz">>

lz4 == <<"lz4">>
off == <<"off">>

Profiles == { "tree", "enc", "flags" }

\* Rows about one inheritable property over a tree three levels deep.
TreeRows ==
    { Row(n, "compression", x, "-", <<>>) : n \in {foo, fooA, fooAB, fooAC}, x \in {lz4, off} }
    \cup { Row(n, "compression", lz4, "inherited from ", q) :
             n \in {fooA, fooAB, fooAC}, q \in {foo, fooA, fooAB} }
    \cup { Row(fooAB, "compression", off, "inherited from ", foo),
           Row(foo, "compression", lz4, "local", <<>>),
           Row(fooA, "mounted", <<"yes">>, "-", <<>>),
           Row(fooA, "mounted", <<"yes">>, "inherited from ", foo) }

\* The six rows of an encrypted dataset, in the order zfs prints them.
EncRows(n, root, enc, keyloc, kltag) ==
    << Row(n, "encryption", enc, "-", <<>>),
       Row(n, "encryptionroot", root, "-", <<>>),
       Row(n, "keyformat", <<"passphrase">>, "-", <<>>),
       Row(n, "keylocation", keyloc, kltag, <<>>),
       Row(n, "keystatus", <<"available">>, "-", <<>>),
       Row(n, "pbkdf2iters", <<"342K">>, "-", <<>>) >>

EncChunks ==
    { EncRows(foo, r, <<"aes-256-gcm">>, <<"prompt">>, "local") : r \in {foo, fooA} }
    \cup { EncRows(fooA, r, <<"aes-256-gcm">>, <<"prompt">>, "local") : r \in {foo, fooA} }
    \cup { EncRows(fooA, foo, <<"aes-128-ccm">>, <<"prompt">>, "local"),
           EncRows(fooB, fooA, <<"aes-256-gcm">>, <<"prompt">>, "local"),
           EncRows(fooA, foo, <<"aes-256-gcm">>, <<"none">>, "default"),
           [ EncRows(fooA, foo, <<"aes-128-ccm">>, <<"prompt">>, "local")
               EXCEPT ![1] = Row(fooA, "encryption", <<"aes-128-ccm">>, "temporary", <<>>) ],
           SubSeq(EncRows(fooA, foo, <<"aes-256-gcm">>, <<"prompt">>, "local"), 1, 5),
           << Row(fooA, "encryptionroot", fooB, "-", <<>>) >>,
           << Row(fooA, "encryptionroot", <<>>, "-", <<>>) >>,
           << Row(fooA, "encryptionroot", foo, "-", <<>>) >>,
           << Row(foo, "compression", lz4, "-", <<>>) >>,
           << Row(fooA, "compression", lz4, "-", <<>>) >> }

\* Rows of every source kind, feature rows, a second pool, and the lines the
\* parser skips or rejects.
FlagRows ==
    { Row(n, "compression", lz4, t, <<>>) :
        n \in {foo, fooA}, t \in {"-", "local", "default", "temporary"} }
    \cup { Row(n, "feature@e", x, "local", <<>>) :
             n \in {foo}, x \in {FeatureEnabled, FeatureActive, FeatureDisabled} }
    \cup { Row(foo, "readonly", <<"on">>, "local", <<>>),
           Row(foo, "mounted", <<"yes">>, "-", <<>>),
           Row(foo, "mounted", <<"yes">>, "default", <<>>),
           Row(fooA, "compression", lz4, "inherited from ", foo),
           Row(bar, "compression", lz4, "local", <<>>),
           Row(snapshot, "used", <<"0">>, "-", <<>>),
           BlankLine, BadLine }

\* Lines of a pool-properties dump: a status and a plain property under
\* every tag the regexp lets through, two pools, a blank and a bad line.
ZpoolRows ==
    { Row(n, "size", <<"10G">>, t, <<>>) : n \in {foo, bar}, t \in {"-", "local"} }
    \cup { Row(foo, "comment", <<"tank">>, t, <<>>) : t \in {"local", "default", "temporary"} }
    \cup { Row(foo, "health", <<"ONLINE">>, "default", <<>>),
           Row(bar, "comment", <<"tank">>, "inherited from ", foo),
           BlankLine, BadLine }

Chunks(pr) ==
    CASE pr = "tree" -> { <<r>> : r \in TreeRows }
      [] pr = "enc" -> EncChunks
      [] pr = "flags" -> { <<r>> : r \in FlagRows }

PoolProperty(name, value, loc) == Property(name, value, PropertySource(loc, <<>>, NoRef))

Bag(props) == [n \in { q.Name : q \in props } |-> CHOOSE q \in props : q.Name = n]

\* The pool properties of TestParseGetAll, with a status and a plain one.
TestBag ==
    Bag({ PoolProperty("feature@d", FeatureDisabled, "Local"),
          PoolProperty("feature@e", FeatureEnabled, "Local"),
          PoolProperty("feature@a", FeatureActive, "Local"),
          PoolProperty("size", <<"10G">>, "Readonly"),
          PoolProperty("comment", <<"tank">>, "Local") })

OtherBag ==
    Bag({ PoolProperty("feature@e", FeatureEnabled, "Default"),
          PoolProperty("feature@a", FeatureActive, "Readonly"),
          PoolProperty("comment", <<"tank">>, "Default") })

PoolProps(pr) ==
    IF pr = "flags"
    THEN { Put(Put(EmptyMap, foo, TestBag), bar, OtherBag),
           Put(EmptyMap, foo, OtherBag) }
    ELSE { Put(Put(EmptyMap, foo, EmptyMap), bar, EmptyMap) }

(***************************************************************************)
(* State.                                                                  *)
(***************************************************************************)
VARIABLES
    profile,    \* the menu the dump is made from
    poolName,   \* zpoolParse: the pool of the last line read, <<>> before the first
    poolProps,  \* parseGetAll's poolProps argument
    pc,         \* "start", "probe" (parseDataset(nil)), "scan" (parseDataset(pool)),
                \* "fix" (fixInheritance), "returned", "panic"
    lines,      \* parser.lines, as far as the input is known
    nchunks,    \* the chunks of the dump so far
    i,          \* the index of parseDataset's loop
    set,        \* the Dataset parseDataset is filling
    pool,       \* the Pool parsePool is filling, or NoPool
    pools,      \* the forest
    todo,       \* fixInheritance: the pools not yet visited
    cur,        \* fixInheritance: the pool being visited, <<>> when none
    k,          \* fixInheritance: the datasets of cur already visited
    forest,     \* on return: whether the first result is the forest (not nil)
    err,        \* on return: the error returned, "nil" for none
    runs,       \* completed runs of fixInheritance
    parsed,     \* the forest as parsing left it
    first,      \* the forest as the first run of fixInheritance left it
    cmd         \* the last command synthesized

vars == << profile, poolName, poolProps, pc, lines, nchunks, i, set, pool, pools, todo, cur, k,
           forest, err, runs, parsed, first, cmd >>

NoCmd == [op |-> "", pool |-> <<>>, name |-> <<>>, minimal |-> FALSE,
          err |-> "", cmdline |-> <<>>]

\* parseGetAll is called on a dump and the pool properties of a profile.
InitDump ==
    /\ profile \in Profiles
    /\ poolName = <<>>
    /\ poolProps \in PoolProps(profile)
    /\ pc = "start"
    /\ lines = <<>>
    /\ nchunks = 0
    /\ i = 0
    /\ set = NewSet
    /\ pool = NoPool
    /\ pools = EmptyMap
    /\ todo = {}
    /\ cur = <<>>
    /\ k = 0
    /\ forest = FALSE
    /\ err = ""
    /\ runs = 0
    /\ parsed = EmptyMap
    /\ first = EmptyMap
    /\ cmd = NoCmd

\* zpoolParse is called on a pool-properties dump.
InitZpool ==
    /\ profile = "zpool"
    /\ poolName = <<>>
    /\ poolProps = EmptyMap
    /\ pc = "zstart"
    /\ lines = <<>>
    /\ nchunks = 0
    /\ i = 0
    /\ set = NewSet
    /\ pool = NoPool
    /\ pools = EmptyMap
    /\ todo = {}
    /\ cur = <<>>
    /\ k = 0
    /\ forest = FALSE
    /\ err = ""
    /\ runs = 0
    /\ parsed = EmptyMap
    /\ first = EmptyMap
    /\ cmd = NoCmd

Init == InitDump \/ InitZpool

\* No turn of the loop reads a line below its index again: parseDataset
\* returns from index 0 without slicing, and slices from its index otherwise.
\* parser.lines is kept with those lines blanked.
passed(ls, n) == [j \in 1..Len(ls) |-> IF j <= n THEN BlankLine ELSE ls[j]]

(***************************************************************************)
(* zpoolParse.  forest tells whether the map returned is not nil.          *)
(***************************************************************************)
ZParser == [pc |-> pc, lines |-> lines, i |-> i, poolName |-> poolName,
            poolProps |-> poolProps, forest |-> forest, err |-> err]

ZReturns(st, e) == [st EXCEPT !.pc = "zreturned", !.forest = FALSE, !.err = e]

\* One turn of the loop of zpoolParse on line l.
zpoolStep(known, l) ==
    LET st == [ZParser EXCEPT !.lines = known]
        fresh == l.set # poolName
        props == IF fresh THEN EmptyMap ELSE poolProps[l.set]
        src == parseZpoolSource(l.prop, l.raw)
    IN  IF l.kind = "blank" THEN [st EXCEPT !.i = i + 1]
        ELSE IF l.kind = "bad" THEN ZReturns(st, "unparseable input")
        ELSE IF fresh /\ l.set \in DOMAIN poolProps
        THEN ZReturns([st EXCEPT !.poolName = l.set], "duplicate zpool found")
        ELSE IF src.err # ""
        THEN ZReturns([st EXCEPT !.poolName = l.set,
                                 !.poolProps = Put(poolProps, l.set, props)], src.err)
        ELSE [st EXCEPT !.i = i + 1,
                        !.poolName = l.set,
                        !.poolProps = Put(poolProps, l.set,
                                          Put(props, l.prop,
                                              Property(l.prop, l.value, src.src)))]

\* zpoolParse up to its loop: the header line matches or not.
ZpoolHeader ==
    /\ pc = "zstart"
    /\ \E matches \in BOOLEAN :
        IF matches
        THEN pc' = "zscan" /\ UNCHANGED << forest, err >>
        ELSE pc' = "zreturned" /\ forest' = FALSE /\ err' = "unexpected header"
    /\ UNCHANGED << profile, poolName, poolProps, lines, nchunks, i, set, pool, pools, todo,
                    cur, k, runs, parsed, first, cmd >>

ZpoolLine ==
    /\ pc = "zscan"
    /\ \E more \in (IF i < Len(lines) THEN {<<>>}
                    ELSE IF nchunks < MaxChunks THEN { <<r>> : r \in ZpoolRows } ELSE {}) :
        LET st == zpoolStep(lines \o more, (lines \o more)[i + 1])
        IN  /\ pc' = st.pc
            /\ lines' = passed(st.lines, st.i)
            /\ i' = st.i
            /\ poolName' = st.poolName
            /\ poolProps' = st.poolProps
            /\ forest' = st.forest
            /\ err' = st.err
            /\ nchunks' = IF more = <<>> THEN nchunks ELSE nchunks + 1
    /\ UNCHANGED << profile, set, pool, pools, todo, cur, k, runs, parsed, first, cmd >>

\* The loop of zpoolParse ends: it returns the map.
ZpoolEnd ==
    /\ pc = "zscan"
    /\ i >= Len(lines)
    /\ pc' = "zreturned"
    /\ forest' = TRUE
    /\ err' = "nil"
    /\ UNCHANGED << profile, poolName, poolProps, lines, nchunks, i, set, pool, pools, todo,
                    cur, k, runs, parsed, first, cmd >>

(***************************************************************************)
(* parseGetAll.                                                            *)
(***************************************************************************)
\* parseGetAll up to its loop: the header line matches or not.
ParseHeader ==
    /\ pc = "start"
    /\ \E matches \in BOOLEAN :
        IF matches
        THEN pc' = "probe" /\ UNCHANGED << forest, err >>
        ELSE pc' = "returned" /\ forest' = FALSE /\ err' = "unexpected header"
    /\ UNCHANGED << profile, poolName, poolProps, lines, nchunks, i, set, pool, pools, todo, cur, k,
                    runs, parsed, first, cmd >>

\* What one turn of parseDataset's loop does with line l at index i.
lineCase(l) ==
    IF l.kind = "blank" THEN "skip"
    ELSE IF l.kind = "bad" THEN "unparseable"
    ELSE IF ContainsAt(l.set) THEN "skip"
    ELSE IF i = 0 /\ pool = NoPool THEN "nextPool"
    ELSE IF i = 0 /\ l.set = set.Name THEN "blank set name"
    ELSE IF i = 0 /\ l.set # pool.Name /\ ~isParent(l.set, pool.Name) THEN "nextPool"
    ELSE IF i # 0 /\ l.set # set.Name THEN "slice"
    ELSE "row"

\* parseGetAll's use of a pool that parsePool returned: its properties.
withProperties(p) == [p EXCEPT !.Properties = poolProps[p.Name]]

Parser == [pc |-> pc, lines |-> lines, i |-> i, set |-> set, pool |-> pool,
           pools |-> pools, forest |-> forest, err |-> err]

Returns(st, f, e) == [st EXCEPT !.pc = "returned", !.forest = f, !.err = e]

\* One turn of the loop of parseDataset, with what parsePool and parseGetAll
\* do when the turn makes parseDataset return, up to the next turn.
\* known is parser.lines as far as it is known, l its line at index i.
lineStep(known, l) ==
    LET st == [Parser EXCEPT !.lines = known]
        c == lineCase(l)
        src == parseSource(l.prop, l.value, l.raw, l.parent, pool)
    IN  CASE c = "skip" -> [st EXCEPT !.i = i + 1]
          [] c = "unparseable" -> Returns(st, FALSE, "unparseable input")
          [] c = "blank set name" -> [st EXCEPT !.pc = "panic"]
          [] c = "nextPool" /\ pool = NoPool ->
                \* parsePool: newPool, then parseDataset(pool) from the same line
                IF ~isRootDataset(l.set)
                THEN Returns(st, FALSE, "first dataset in pool is not root")
                ELSE [st EXCEPT !.pc = "scan", !.pool = newPool(l.set), !.set = NewSet, !.i = 0]
          [] c = "nextPool" /\ pool # NoPool ->
                \* parsePool returns (pool, nextPool); parseGetAll stores the pool
                IF pool.Name \notin DOMAIN poolProps
                THEN Returns(st, FALSE, "missing pool properties")
                ELSE [st EXCEPT !.pc = "probe", !.pool = NoPool, !.set = NewSet, !.i = 0,
                                !.pools = Put(pools, pool.Name, withProperties(pool))]
          [] c = "slice" /\ pool = NoPool ->
                \* parseDataset(nil) returns (set, nil): parsePool returns (nil, nil),
                \* and so does parseGetAll
                Returns([st EXCEPT !.lines = SubSeq(known, i + 1, Len(known)), !.i = 0],
                        FALSE, "nil")
          [] c = "slice" /\ pool # NoPool ->
                IF addDatasetFails(pool, set)
                THEN Returns([st EXCEPT !.lines = SubSeq(known, i + 1, Len(known)), !.i = 0],
                             FALSE, "already contains a dataset")
                ELSE [st EXCEPT !.lines = SubSeq(known, i + 1, Len(known)),
                                !.pool = addDataset(pool, set), !.set = NewSet, !.i = 0]
          [] c = "row" ->
                IF src.err # "" THEN Returns(st, FALSE, src.err)
                ELSE [st EXCEPT !.i = i + 1,
                                !.set = Dataset(l.set,
                                            Put(set.Properties, l.prop,
                                                Property(l.prop, l.value, src.src)))]

ReadLine ==
    /\ pc \in {"probe", "scan"}
    /\ \E more \in (IF i < Len(lines) THEN {<<>>}
                    ELSE IF nchunks < MaxChunks THEN Chunks(profile) ELSE {}) :
        LET st == lineStep(lines \o more, (lines \o more)[i + 1])
        IN  /\ pc' = st.pc
            /\ lines' = passed(st.lines, st.i)
            /\ i' = st.i
            /\ set' = st.set
            /\ pool' = st.pool
            /\ pools' = st.pools
            /\ forest' = st.forest
            /\ err' = st.err
            /\ nchunks' = IF more = <<>> THEN nchunks ELSE nchunks + 1
    /\ UNCHANGED << profile, poolName, poolProps, todo, cur, k, runs, parsed, first, cmd >>

\* parseDataset's loop ends: it returns (set, inputEOF).  With pool nil,
\* parsePool returns (nil, inputEOF) and parseGetAll dereferences the nil
\* pool.  Otherwise parsePool adds the set, parseGetAll stores the pool and
\* calls fixInheritance.
endStep ==
    IF pool = NoPool THEN [Parser EXCEPT !.pc = "panic"]
    ELSE IF addDatasetFails(pool, set)
    THEN Returns(Parser, FALSE, "already contains a dataset")
    ELSE IF pool.Name \notin DOMAIN poolProps
    THEN Returns(Parser, FALSE, "missing pool properties")
    ELSE [Parser EXCEPT !.pc = "fix", !.pool = NoPool, !.set = NewSet,
                        !.pools = Put(pools, pool.Name,
                                      withProperties(addDataset(pool, set)))]

EndOfInput ==
    /\ pc \in {"probe", "scan"}
    /\ i >= Len(lines)
    /\ LET st == endStep
       IN  /\ pc' = st.pc
           /\ set' = st.set
           /\ pool' = st.pool
           /\ pools' = st.pools
           /\ forest' = st.forest
           /\ err' = st.err
           /\ todo' = IF st.pc = "fix" THEN DOMAIN st.pools ELSE todo
           /\ parsed' = IF st.pc = "fix" THEN st.pools ELSE parsed
    /\ UNCHANGED << profile, poolName, poolProps, lines, nchunks, i, cur, k, runs, first, cmd >>

(***************************************************************************)
(* fixInheritance: one turn of the loop over the datasets of a pool.  The  *)
(* pools are the entries of a map: the next one is any of those left.      *)
(***************************************************************************)
FixDataset ==
    /\ pc = "fix"
    /\ \E pn \in (IF cur # <<>> THEN {cur} ELSE todo), firstMissing \in BOOLEAN :
        LET p == pools[pn]
            r == fixDataset(p, p.Ordered[k + 1], firstMissing)
            lastOfPool == k + 1 = Len(p.Ordered)
            lastOfAll == lastOfPool /\ todo = {pn}
        IN  CASE r.out = "panic" ->
                    /\ pc' = "panic"
                    /\ UNCHANGED << pools, todo, cur, k, forest, err, runs >>
              [] r.out = "err" ->
                    /\ pc' = "returned"
                    /\ forest' = FALSE
                    /\ err' = r.err
                    /\ UNCHANGED << pools, todo, cur, k, runs >>
              [] r.out = "ok" ->
                    /\ pools' = [pools EXCEPT ![pn].Index = r.index]
                    /\ todo' = IF lastOfPool THEN todo \ {pn} ELSE todo
                    /\ cur' = IF lastOfPool THEN <<>> ELSE pn
                    /\ k' = IF lastOfPool THEN 0 ELSE k + 1
                    /\ pc' = IF lastOfAll THEN "returned" ELSE "fix"
                    /\ forest' = IF lastOfAll THEN TRUE ELSE forest
                    /\ err' = IF ~lastOfAll THEN err
                              ELSE IF runs = 0 THEN "inputEOF" ELSE "nil"
                    /\ runs' = IF lastOfAll THEN runs + 1 ELSE runs
    /\ UNCHANGED << profile, poolName, poolProps, lines, nchunks, i, set, pool, parsed, first, cmd >>

\* A further call of fixInheritance on the forest parseGetAll returned.
FixAgain ==
    /\ pc = "returned"
    /\ forest
    /\ runs < MaxRuns
    /\ pc' = "fix"
    /\ todo' = DOMAIN pools
    /\ first' = IF runs = 1 THEN pools ELSE first
    /\ UNCHANGED << profile, poolName, poolProps, lines, nchunks, i, set, pool, pools, cur, k,
                    forest, err, runs, parsed, cmd >>

(***************************************************************************)
(* Command synthesis on the forest parseGetAll returned.                   *)
(***************************************************************************)
Command(op, pn, name, minimal, e, cmdline) ==
    [op |-> op, pool |-> pn, name |-> name, minimal |-> minimal, err |-> e,
     cmdline |-> cmdline]

\* A Pool value made by the caller, with no dataset: its root is missing.
fizz == <<"fizz">>

HandBuilt == newPool(fizz)

\* CreatePoolCommand with the root dataset's flags put before the pool's.
createPoolCommandRootFirst(p, opts) ==
    IF p.Name \notin DOMAIN p.Index
    THEN Command("CreatePoolCommand", p.Name, p.Name, opts.MinimalFeatures,
                 "missing root dataset", <<>>)
    ELSE Command("CreatePoolCommand", p.Name, p.Name, opts.MinimalFeatures, "",
                 << TokLit("zpool"), TokLit("create"), TokLit("-d") >>
                 \o DatasetFlags(p.Index, p.Index[p.Name], "O")
                 \o PoolFlags(p, opts)
                 \o << TokName(p.Name) >>)

\* Pool.CreatePoolCommand
createPoolCommand(p, opts) ==
    IF p.Name \notin DOMAIN p.Index
    THEN Command("CreatePoolCommand", p.Name, p.Name, opts.MinimalFeatures,
                 "missing root dataset", <<>>)
    ELSE Command("CreatePoolCommand", p.Name, p.Name, opts.MinimalFeatures, "",
                 << TokLit("zpool"), TokLit("create"), TokLit("-d") >>
                 \o PoolFlags(p, opts)
                 \o DatasetFlags(p.Index, p.Index[p.Name], "O")
                 \o << TokName(p.Name) >>)

\* Pool.CreateDatasetCommand
createDatasetCommand(p, name) ==
    IF name \notin DOMAIN p.Index
    THEN Command("CreateDatasetCommand", p.Name, name, FALSE, "dataset not found", <<>>)
    ELSE Command("CreateDatasetCommand", p.Name, name, FALSE, "",
                 << TokLit("zfs"), TokLit("create") >>
                 \o DatasetFlags(p.Index, p.Index[name], "o")
                 \o << TokName(p.Index[name].Name) >>)

CreatePoolCommand ==
    /\ pc = "returned"
    /\ forest
    /\ \E p \in { pools[pn] : pn \in DOMAIN pools } \cup { HandBuilt }, minimal \in BOOLEAN :
        cmd' = createPoolCommand(p, FlagOptions(minimal))
    /\ UNCHANGED << profile, poolName, poolProps, pc, lines, nchunks, i, set, pool, pools, todo, cur,
                    k, forest, err, runs, parsed, first >>

CreateDatasetCommand ==
    /\ pc = "returned"
    /\ forest
    /\ \E pn \in DOMAIN pools :
        \E name \in DOMAIN pools[pn].Index \cup {fooB} :
            cmd' = createDatasetCommand(pools[pn], name)
    /\ UNCHANGED << profile, poolName, poolProps, pc, lines, nchunks, i, set, pool, pools, todo, cur,
                    k, forest, err, runs, parsed, first >>

\* ImportedPools, from the return of parseGetAll: the forest and nil when
\* the error is inputEOF, else nil and an error that wraps it.
importedPools(f, e) ==
    IF e = "inputEOF" THEN [forest |-> f, err |-> "nil"]
    ELSE [forest |-> FALSE, err |-> "error parsing pool properties"]

ImportedPools ==
    /\ pc = "returned"
    /\ cmd = NoCmd
    /\ pc' = "imported"
    /\ forest' = importedPools(forest, err).forest
    /\ err' = importedPools(forest, err).err
    /\ UNCHANGED << profile, poolName, poolProps, lines, nchunks, i, set, pool, pools, todo,
                    cur, k, runs, parsed, first, cmd >>

Next == ParseHeader \/ ReadLine \/ EndOfInput \/ FixDataset
        \/ CreatePoolCommand \/ CreateDatasetCommand
        \/ ZpoolHeader \/ ZpoolLine \/ ZpoolEnd
        \/ ImportedPools

Spec == Init /\ [][Next]_vars

\* The parser and resolver alone, with fixInheritance called again on the
\* forest it produced.
NextAgain == ParseHeader \/ ReadLine \/ EndOfInput \/ FixDataset \/ FixAgain

SpecAgain == InitDump /\ [][NextAgain]_vars

TypeOK ==
    /\ pc \in {"start", "probe", "scan", "fix", "returned", "panic",
              "zstart", "zscan", "zreturned", "imported"}
    /\ i \in 0..(6 * MaxChunks)
    /\ runs \in 0..MaxRuns


(***************************************************************************)
(* Vocabulary of the properties below.                                     *)
(***************************************************************************)
\* parseGetAll has returned a forest.
Done == pc = "returned" /\ forest

\* The (pool name, dataset name) pairs of a forest.
SetsOf(f) == UNION { { <<pn, n>> : n \in DOMAIN f[pn].Index } : pn \in DOMAIN f }

PropertyOf(f, pn, n, P) == f[pn].Index[n].Properties[P]

EffectiveValue(f, pn, n, P) == Value(f[pn].Index, PropertyOf(f, pn, n, P))

Carries(f, pn, n, P) == P \in DOMAIN f[pn].Index[n].Properties

\* The command has the pair of property name under the flag letter.
Emitted(c, letter, name) ==
    \E j \in 1..(Len(c) - 1) :
        c[j] = TokOpt(letter) /\ c[j + 1].t = "pair" /\ c[j + 1].s = name

EmittedAs(c, letter, name, value) ==
    \E j \in 1..(Len(c) - 1) : c[j] = TokOpt(letter) /\ c[j + 1] = TokPair(name, value)

\* The property bags a synthesized command draws its flags from: the flag
\* letter, the properties, and whether the bag is that of a dataset whose
\* encryption root is another name.
BagOf(letter, props, child) == [letter |-> letter, props |-> props, child |-> child]

DatasetBag(letter, pn, n) ==
    BagOf(letter, pools[pn].Index[n].Properties,
          /\ Carries(pools, pn, n, encryptionRoot)
          /\ EffectiveValue(pools, pn, n, encryptionRoot) # n)

BagsOf(c) ==
    IF c.err # "" \/ c.op = "" THEN {}
    ELSE IF c.op = "CreatePoolCommand"
    THEN { BagOf("o", pools[c.pool].Properties, FALSE), DatasetBag("O", c.pool, c.pool) }
    ELSE { DatasetBag("o", c.pool, c.name) }

StatusOnlyProperty(q) ==
    \/ q.Source.Location = "Temporary"
    \/ q.Name \in statusProperties
    \/ q.Name \in ignoreProperties

SuppressedByEncryption(b, q) ==
    b.child /\ q.Name \in encryptionInheritedProperties \ encryptionLocalProperties

(***************************************************************************)
(* C1.  A command carries a flag pair for a property of its bags only if   *)
(* the property is not status-only and its source is neither Default nor   *)
(* Inherited; a property that is not a feature flag, has source Local or   *)
(* ReadOnly, is not status-only and is not suppressed by the               *)
(* encryption-child rule is carried as name=rawValue.                      *)
(***************************************************************************)
C1_FlagFilter ==
    \A b \in BagsOf(cmd) :
        /\ \A n \in PropNames :
            Emitted(cmd.cmdline, b.letter, n) => n \in DOMAIN b.props
        /\ \A n \in DOMAIN b.props :
            LET q == b.props[n]
            IN  /\ Emitted(cmd.cmdline, b.letter, n) =>
                    /\ ~StatusOnlyProperty(q)
                    /\ q.Source.Location \notin {"Default", "Inherited"}
                /\ ( /\ n \notin FeaturePrefixed
                     /\ q.Source.Location \in {"Local", "Readonly"}
                     /\ ~StatusOnlyProperty(q)
                     /\ ~SuppressedByEncryption(b, q) )
                   => EmittedAs(cmd.cmdline, b.letter, n, q.localValue)

\* A pool command that carries a pool-level pair and a root-dataset pair
\* while the pool has a status-only property and its root a Default, a
\* Temporary or an ignored one.
C1_Witness ==
    /\ cmd.op = "CreatePoolCommand"
    /\ cmd.err = ""
    /\ EmittedAs(cmd.cmdline, "o", "comment", <<"tank">>)
    /\ "size" \in DOMAIN pools[cmd.pool].Properties
    /\ \E n \in DOMAIN pools[cmd.pool].Index[cmd.pool].Properties :
        Emitted(cmd.cmdline, "O", n)
    /\ \E n \in DOMAIN pools[cmd.pool].Index[cmd.pool].Properties :
        LET q == pools[cmd.pool].Index[cmd.pool].Properties[n]
        IN  StatusOnlyProperty(q) \/ q.Source.Location = "Default"

(***************************************************************************)
(* C2.  For a feature-flag property that passes the status and source      *)
(* filter, in every command: value disabled gives no flag, active gives    *)
(* name=enabled, enabled gives no flag in minimal mode and name=enabled    *)
(* otherwise; in a pool command this holds of the pool's properties and of *)
(* its root dataset's.                                                     *)
(***************************************************************************)
C2_FeatureFlags ==
    \A b \in BagsOf(cmd) :
        \A n \in DOMAIN b.props \cap FeaturePrefixed :
            LET q == b.props[n]
            IN  ( /\ ~StatusOnlyProperty(q)
                  /\ q.Source.Location \notin {"Default", "Inherited"} )
                =>
                /\ q.localValue = FeatureDisabled => ~Emitted(cmd.cmdline, b.letter, n)
                /\ q.localValue = FeatureActive =>
                        EmittedAs(cmd.cmdline, b.letter, n, FeatureEnabled)
                /\ q.localValue = FeatureEnabled =>
                        IF cmd.minimal
                        THEN ~Emitted(cmd.cmdline, b.letter, n)
                        ELSE EmittedAs(cmd.cmdline, b.letter, n, FeatureEnabled)


\* The path-ancestors of dataset d of pool pn in forest f that carry P.
CarryingAncestors(f, pn, d, P) ==
    { a \in DOMAIN f[pn].Index : isParent(d, a) /\ Carries(f, pn, a, P) }

\* The nearest of them: the one with the longest name.
Nearest(as) == CHOOSE a \in as : \A b \in as : Len(b) <= Len(a)

(***************************************************************************)
(* C3.  After a successful parse and resolution, for all datasets D,       *)
(* path-ancestors A of D and names P outside the encryption-inherited      *)
(* table: if D and A carry P with equal effective values, D.P is Inherited *)
(* and has A.P's effective value.                                          *)
(***************************************************************************)
C3_AncestorEqualInherited ==
    Done =>
        \A s \in SetsOf(pools) :
            \A a \in DOMAIN pools[s[1]].Index, P \in PropNames \ encryptionInheritedProperties :
                ( /\ isParent(s[2], a)
                  /\ Carries(pools, s[1], s[2], P)
                  /\ Carries(pools, s[1], a, P)
                  /\ EffectiveValue(pools, s[1], s[2], P) # Diverges
                  /\ EffectiveValue(pools, s[1], s[2], P) = EffectiveValue(pools, s[1], a, P) )
                => PropertyOf(pools, s[1], s[2], P).Source.Location = "Inherited"

(***************************************************************************)
(* C3, amended.  After a successful parse and resolution, for every        *)
(* dataset D and every property P of D that the dump tags read-only, that  *)
(* is not status-only and not in the encryption-inherited table: if the    *)
(* nearest path-ancestor A of D that carries P has, as parsed, an          *)
(* effective value equal to D.P's, then D.P is Inherited with              *)
(* inheritedFrom A's property P.                                           *)
(***************************************************************************)
C3_NearestReadonlyInherited ==
    Done =>
        \A s \in SetsOf(parsed) :
            \A P \in DOMAIN parsed[s[1]].Index[s[2]].Properties :
                LET q == PropertyOf(parsed, s[1], s[2], P)
                    as == CarryingAncestors(parsed, s[1], s[2], P)
                IN  ( /\ q.Source.Location = "Readonly"
                      /\ ~StatusOnlyProperty(q)
                      /\ P \notin encryptionInheritedProperties
                      /\ as # {}
                      /\ EffectiveValue(parsed, s[1], Nearest(as), P) = q.localValue )
                    => PropertyOf(pools, s[1], s[2], P).Source
                         = PropertySource("Inherited", Nearest(as), Ref(Nearest(as), P))

\* A resolved forest in which a read-only property was linked to its
\* parent's while the root carries the property too.
C3_Witness ==
    /\ Done
    /\ \E s \in SetsOf(parsed) :
        \E P \in DOMAIN parsed[s[1]].Index[s[2]].Properties :
            LET as == CarryingAncestors(parsed, s[1], s[2], P)
            IN  /\ PropertyOf(parsed, s[1], s[2], P).Source.Location = "Readonly"
                /\ Cardinality(as) >= 2
                /\ PropertyOf(pools, s[1], s[2], P).Source
                     = PropertySource("Inherited", Nearest(as), Ref(Nearest(as), P))

(***************************************************************************)
(* C4.  After a successful resolution, for every dataset D whose           *)
(* encryption root is another dataset R: if D is a strict descendant of R, *)
(* every property of the encryption-inherited table is on D Inherited from *)
(* R's property of that name, except a may-differ property whose value on  *)
(* D differs from R's, which is as parsing left it; if D is no descendant  *)
(* of R, D's properties of the table are as parsing left them.             *)
(***************************************************************************)
C4_EncryptionInheritance ==
    Done =>
        \A s \in SetsOf(parsed) :
            LET pn == s[1]
                d == s[2]
                r == EffectiveValue(parsed, pn, d, encryptionRoot)
            IN  ( Carries(parsed, pn, d, encryptionRoot) /\ r # <<>> /\ r # d ) =>
                    IF isParent(d, r)
                    THEN \A n \in encryptionInheritedProperties :
                            /\ Carries(pools, pn, d, n)
                            /\ Carries(pools, pn, r, n)
                            /\ IF /\ n \in encryptionLocalProperties
                                  /\ EffectiveValue(parsed, pn, r, n)
                                        # EffectiveValue(parsed, pn, d, n)
                               THEN PropertyOf(pools, pn, d, n) = PropertyOf(parsed, pn, d, n)
                               ELSE PropertyOf(pools, pn, d, n).Source
                                      = PropertySource("Inherited", r, Ref(r, n))
                    ELSE \A n \in encryptionInheritedProperties
                                    \cap DOMAIN parsed[pn].Index[d].Properties :
                            PropertyOf(pools, pn, d, n) = PropertyOf(parsed, pn, d, n)

\* A child of its encryption root whose encryption differs from the root's
\* and whose key location was rewritten.
C4_Witness ==
    /\ Done
    /\ \E s \in SetsOf(parsed) :
        LET r == EffectiveValue(parsed, s[1], s[2], encryptionRoot)
        IN  /\ Carries(parsed, s[1], s[2], encryptionRoot)
            /\ isParent(s[2], r)
            /\ EffectiveValue(parsed, s[1], r, "encryption")
                 # EffectiveValue(parsed, s[1], s[2], "encryption")
            /\ PropertyOf(pools, s[1], s[2], "encryption").Source.Location = "Readonly"
            /\ PropertyOf(pools, s[1], s[2], "keylocation").Source
                 = PropertySource("Inherited", r, Ref(r, "keylocation"))

\* A forest with a dataset whose encryption root is no ancestor of it.
C4_WitnessCrossLink ==
    /\ Done
    /\ \E s \in SetsOf(parsed) :
        LET r == EffectiveValue(parsed, s[1], s[2], encryptionRoot)
        IN  /\ Carries(parsed, s[1], s[2], encryptionRoot)
            /\ r # <<>> /\ r # s[2] /\ ~isParent(s[2], r)


\* The dataset a synthesized command takes its dataset flags from, and the
\* letter it puts before them.
CommandSet(c) == IF c.op = "CreatePoolCommand" THEN c.pool ELSE c.name

CommandLetter(c) == IF c.op = "CreatePoolCommand" THEN "O" ELSE "o"

Synthesized(c) == c.op # "" /\ c.err = ""

\* The dataset of the command names another dataset as its encryption root.
EncryptedChild(c) ==
    /\ Carries(pools, c.pool, CommandSet(c), encryptionRoot)
    /\ EffectiveValue(pools, c.pool, CommandSet(c), encryptionRoot) # CommandSet(c)

\* The dataset of the command carries an encryption value other than the one
\* its encryption root carries.
EncryptionDiffers(c) ==
    LET d == CommandSet(c)
        r == EffectiveValue(pools, c.pool, d, encryptionRoot)
    IN  /\ EncryptedChild(c)
        /\ Carries(pools, c.pool, d, "encryption")
        /\ r \in DOMAIN pools[c.pool].Index
        /\ Carries(pools, c.pool, r, "encryption")
        /\ EffectiveValue(pools, c.pool, d, "encryption")
             # EffectiveValue(pools, c.pool, r, "encryption")

EncryptionSuppression(c) ==
    EncryptedChild(c) =>
        \A n \in encryptionInheritedProperties \ encryptionLocalProperties :
            ~Emitted(c.cmdline, CommandLetter(c), n)

NoEncryptionSuppression(c) ==
    ~EncryptedChild(c) =>
        \A n \in encryptionInheritedProperties :
            Carries(pools, c.pool, CommandSet(c), n) =>
                LET q == PropertyOf(pools, c.pool, CommandSet(c), n)
                IN  ( ~StatusOnlyProperty(q)
                      /\ q.Source.Location \notin {"Default", "Inherited"} )
                    => EmittedAs(c.cmdline, CommandLetter(c), n, q.localValue)

(***************************************************************************)
(* C5.  The command of a dataset whose encryption root is another name     *)
(* has no flag for a property of the encryption-inherited table outside    *)
(* the may-differ subset; when its encryption value differs from its       *)
(* root's and the source is neither Default nor Inherited, the command     *)
(* has encryption=<value>.  For a dataset with no encryption-root property *)
(* or that is its own root, the encryption tables suppress nothing.        *)
(***************************************************************************)
C5_EncryptedChildFlags ==
    Synthesized(cmd) =>
        /\ EncryptionSuppression(cmd)
        /\ NoEncryptionSuppression(cmd)
        /\ EncryptionDiffers(cmd) =>
            LET q == PropertyOf(pools, cmd.pool, CommandSet(cmd), "encryption")
            IN  q.Source.Location \notin {"Default", "Inherited"}
                    => EmittedAs(cmd.cmdline, CommandLetter(cmd), "encryption",
                                 EffectiveValue(pools, cmd.pool, CommandSet(cmd), "encryption"))

\* C5 as the code has it: the differing encryption value is kept as a flag
\* when its source is Local or ReadOnly; a Temporary one is status-only and
\* has no flag.
C5_EncryptedChildFlagsLocal ==
    Synthesized(cmd) =>
        /\ EncryptionSuppression(cmd)
        /\ NoEncryptionSuppression(cmd)
        /\ EncryptionDiffers(cmd) =>
            LET q == PropertyOf(pools, cmd.pool, CommandSet(cmd), "encryption")
            IN  /\ q.Source.Location \in {"Local", "Readonly"}
                        => EmittedAs(cmd.cmdline, CommandLetter(cmd), "encryption",
                                     q.localValue)
                /\ q.Source.Location = "Temporary"
                        => ~Emitted(cmd.cmdline, CommandLetter(cmd), "encryption")

\* The command of an encrypted child that keeps its own encryption value
\* and drops the key format it carries.
C5_Witness ==
    /\ Synthesized(cmd)
    /\ cmd.op = "CreateDatasetCommand"
    /\ EncryptionDiffers(cmd)
    /\ EmittedAs(cmd.cmdline, "o", "encryption", <<"aes-128-ccm">>)
    /\ Carries(pools, cmd.pool, cmd.name, "keyformat")
    /\ ~Emitted(cmd.cmdline, "o", "keyformat")

\* The command of a dataset that is its own encryption root carries the
\* flags of the encryption tables.
C5_WitnessOwnRoot ==
    /\ Synthesized(cmd)
    /\ Carries(pools, cmd.pool, CommandSet(cmd), encryptionRoot)
    /\ ~EncryptedChild(cmd)
    /\ Emitted(cmd.cmdline, CommandLetter(cmd), "keyformat")
    /\ Emitted(cmd.cmdline, CommandLetter(cmd), "pbkdf2iters")

\* fixInheritance has stopped short of its end, by an error or a panic.
ResolverStopped ==
    /\ parsed # EmptyMap
    /\ pc = "panic" \/ (pc = "returned" /\ ~forest)

\* The datasets its loop may have been at when it stopped.
StoppedAt ==
    { <<pn, pools[pn].Ordered[k + 1]>> : pn \in (IF cur # <<>> THEN {cur} ELSE todo) }

\* Dataset d of pool pn names another dataset as its encryption root.
HasForeignRoot(f, pn, d) ==
    /\ Carries(f, pn, d, encryptionRoot)
    /\ EffectiveValue(f, pn, d, encryptionRoot) # <<>>
    /\ EffectiveValue(f, pn, d, encryptionRoot) # d

RootMissing(f, pn, d) ==
    EffectiveValue(f, pn, d, encryptionRoot) \notin DOMAIN f[pn].Index

RootNotSelfRooted(f, pn, d) ==
    LET r == EffectiveValue(f, pn, d, encryptionRoot)
    IN  /\ r \in DOMAIN f[pn].Index
        /\ \/ ~Carries(f, pn, r, encryptionRoot)
           \/ EffectiveValue(f, pn, r, encryptionRoot) # r

(***************************************************************************)
(* C6.  For a dataset whose encryption root is a non-empty name other than *)
(* its own: when the pool has no dataset of that name, resolution fails    *)
(* with the error "not found"; when the target lacks the encryption-root   *)
(* property or is not its own root, it fails with the error "not           *)
(* self-rooted"; either way an error is returned with no forest, and       *)
(* nothing panics.                                                         *)
(***************************************************************************)
C6_BadEncryptionRoot ==
    /\ Done =>
        \A s \in SetsOf(pools) :
            HasForeignRoot(pools, s[1], s[2]) =>
                /\ ~RootMissing(pools, s[1], s[2])
                /\ ~RootNotSelfRooted(pools, s[1], s[2])
    /\ ResolverStopped =>
        \E s \in StoppedAt :
            HasForeignRoot(pools, s[1], s[2]) =>
                /\ RootMissing(pools, s[1], s[2]) =>
                    pc = "returned" /\ ~forest /\ err = "encryptionroot not found"
                /\ RootNotSelfRooted(pools, s[1], s[2]) =>
                    pc = "returned" /\ ~forest /\ err = "encryptionroot is not self-rooted"

(***************************************************************************)
(* C7.  fixInheritance is idempotent: on a forest it has resolved, another *)
(* run succeeds and leaves every property's source as it was.              *)
(***************************************************************************)
C7_Idempotent ==
    ( first # EmptyMap /\ pc \in {"returned", "panic"} )
        => ( pc = "returned" /\ forest /\ pools = first )

(***************************************************************************)
(* C8.  In a forest that parsing and resolution produce, the inheritedFrom *)
(* links have no cycle: Value() returns for every property.                *)
(***************************************************************************)
C8_NoCycle ==
    Done =>
        \A s \in SetsOf(pools) :
            \A P \in DOMAIN pools[s[1]].Index[s[2]].Properties :
                EffectiveValue(pools, s[1], s[2], P) # Diverges


\* The shape Pool.addDataset and newPool give a pool.
RootFirst(p) == p.Ordered # <<>> /\ p.Ordered[1] = p.Name /\ isRootDataset(p.Name)

SameDatasets(p) ==
    /\ { p.Ordered[j] : j \in 1..Len(p.Ordered) } = DOMAIN p.Index
    /\ \A n \in DOMAIN p.Index : p.Index[n].Name = n

NoNameTwice(p) ==
    \A j1, j2 \in 1..Len(p.Ordered) : p.Ordered[j1] = p.Ordered[j2] => j1 = j2

AncestorsPresent(p) ==
    \A n \in DOMAIN p.Index :
        \A m \in 1..(Len(n) - 1) : SubSeq(n, 1, m) \in DOMAIN p.Index

C9_Forest ==
    Done =>
        \A pn \in DOMAIN pools :
            /\ pools[pn].Name = pn
            /\ RootFirst(pools[pn])
            /\ SameDatasets(pools[pn])
            /\ NoNameTwice(pools[pn])
            /\ AncestorsPresent(pools[pn])

\* The parse has ended with an error and no forest.
ParseFailed == pc = "returned" /\ ~forest /\ err \notin {"nil", "inputEOF"}

\* The dataset being read has the name of a dataset the pool being built
\* already holds.
NameRecurs == pc \in {"probe", "scan"} /\ pool # NoPool /\ set.Name \in DOMAIN pool.Index

\* A dataset whose name recurs is never added: the parse fails at the line
\* that ends it, if not before.
C9_RecurrenceFails == NameRecurs => (NameRecurs' \/ ParseFailed')

\* The first line of a pool, when it names a dataset that is not a root,
\* fails the parse.
C9_NonRootFirstFails ==
    ( /\ pc = "probe"
      /\ i < Len(lines')
      /\ lines'[i + 1].kind = "row"
      /\ ~ContainsAt(lines'[i + 1].set)
      /\ i = 0
      /\ ~isRootDataset(lines'[i + 1].set) )
    => ParseFailed' /\ err' = "first dataset in pool is not root"

C9_WitnessTwoPools == Done /\ DOMAIN pools = {foo, bar} /\ fooA \in DOMAIN pools[foo].Index

\* The parse has failed on a recurring dataset name.
C9_WitnessRecurs ==
    /\ ParseFailed
    /\ err = "already contains a dataset"
    /\ set.Name \in DOMAIN pool.Index

\* The parse has failed on a first dataset that is not a root.
C9_WitnessNonRoot == ParseFailed /\ err = "first dataset in pool is not root"

\* The line a turn of the parser hands to parseSource with the tag
\* "inherited from", when that turn ends the parse.
InheritedLineFails(l) ==
    /\ pc \in {"probe", "scan"}
    /\ pc' = "returned"
    /\ i' = i
    /\ l.kind = "row"
    /\ lineCase(l) = "row"
    /\ l.raw = "inherited from "

\* The error for what is wrong with X, the dataset the line names.
CorrespondingError(l) ==
    /\ l.parent \notin DOMAIN pool.Index => err' = "parent not found"
    /\ ( l.parent \in DOMAIN pool.Index /\ l.prop \notin DOMAIN pool.Index[l.parent].Properties )
         => err' = "parent does not contain property"
    /\ ( /\ l.parent \in DOMAIN pool.Index
         /\ l.prop \in DOMAIN pool.Index[l.parent].Properties
         /\ l.value # Value(pool.Index, pool.Index[l.parent].Properties[l.prop]) )
         => err' = "does not match value on parent"

\* A property the turn has put into the dataset being read with the source
\* Inherited is linked to the property of the same name of a dataset the
\* pool already holds, and has its effective value.
InheritedLineParsed ==
    \A P \in DOMAIN set'.Properties :
        LET q == set'.Properties[P]
        IN  ( /\ pc \in {"probe", "scan"}
              /\ P \notin DOMAIN set.Properties \/ set.Properties[P] # q
              /\ q.Source.Location = "Inherited" )
            => /\ q.Source.Parent \in DOMAIN pool.Index
               /\ q.Source.Parent # set'.Name \/ NameRecurs'
               /\ P \in DOMAIN pool.Index[q.Source.Parent].Properties
               /\ q.localValue = Value(pool.Index, pool.Index[q.Source.Parent].Properties[P])
               /\ q.Source.Inherited = Ref(q.Source.Parent, P)

(***************************************************************************)
(* C10.  A dataset property line tagged "inherited from X" is parsed only  *)
(* when X is a dataset the current pool already holds, X carries a         *)
(* property of the same name, and the value of the line is X's effective   *)
(* value; the new property is then Inherited, inheritedFrom being X's      *)
(* property.  When X is unknown, lacks the property, or the values differ, *)
(* the parse fails with "not found", "does not contain property", "does    *)
(* not match value on parent" respectively.                                *)
(***************************************************************************)
C10_InheritedFrom ==
    [][ /\ InheritedLineParsed
        /\ \A j \in 1..Len(lines') :
             ( j = i + 1 /\ InheritedLineFails(lines'[j]) )
                => ParseFailed' /\ CorrespondingError(lines'[j]) ]_vars

\* C10 as the code has it: the three errors are those of a line whose
\* property is outside the status table; a line of a status property
\* fails with "expected to be readonly" whatever X is.
C10_InheritedFromNonStatus ==
    [][ /\ InheritedLineParsed
        /\ \A j \in 1..Len(lines') :
             ( j = i + 1 /\ InheritedLineFails(lines'[j]) )
                => /\ ParseFailed'
                   /\ lines'[j].prop \notin statusProperties => CorrespondingError(lines'[j])
                   /\ lines'[j].prop \in statusProperties => err' = "expected to be readonly" ]_vars

\* The dataset being read has a property inherited from a dataset that is
\* not the root, itself inherited.
C10_Witness ==
    /\ pc = "scan"
    /\ "compression" \in DOMAIN set.Properties
    /\ set.Properties["compression"].Source.Location = "Inherited"
    /\ set.Properties["compression"].Source.Parent = fooA
    /\ pool.Index[fooA].Properties["compression"].Source.Location = "Inherited"

C10_WitnessNotFound == ParseFailed /\ err = "parent not found"

C10_WitnessLacks == ParseFailed /\ err = "parent does not contain property"

C10_WitnessDiffers == ParseFailed /\ err = "does not match value on parent"


\* Every status property of the bag came with the tag "-".
StatusReadonly(props) ==
    \A n \in DOMAIN props :
        n \in statusProperties => props[n].Source.Location = "Readonly"

\* No parser has taken in a status property with another tag than "-":
\* neither zpoolParse into its map, nor parseDataset into the dataset it
\* reads, the pool it builds or the forest it hands to fixInheritance.
C11_NoneAccepted ==
    /\ pc \in {"zscan", "zreturned"} =>
            \A pn \in DOMAIN poolProps : StatusReadonly(poolProps[pn])
    /\ pc \in {"probe", "scan"} =>
            /\ StatusReadonly(set.Properties)
            /\ \A n \in DOMAIN pool.Index : StatusReadonly(pool.Index[n].Properties)
    /\ \A s \in SetsOf(parsed) : StatusReadonly(parsed[s[1]].Index[s[2]].Properties)

\* The line at the index of either parser, when the turn on it ends the
\* parse, is a line of a status property with another tag than "-".
StatusLineFails(l) ==
    /\ \/ pc = "zscan" /\ pc' = "zreturned"
       \/ pc \in {"probe", "scan"} /\ pc' = "returned" /\ lineCase(l) = "row"
    /\ i' = i
    /\ l.kind = "row"
    /\ l.prop \in statusProperties
    /\ l.raw # "-"

C11_ErrorReadonly ==
    \A j \in 1..Len(lines') :
        ( j = i + 1 /\ StatusLineFails(lines'[j]) )
            => ~forest' /\ err' = "expected to be readonly"

(***************************************************************************)
(* C11.  A property line whose name is in the status table and whose tag   *)
(* is not "-" makes the parse fail with "expected to be readonly", in the  *)
(* dataset dump and in the pool-properties dump alike: no parser takes     *)
(* such a property in, and the turn that ends the parse on such a line     *)
(* gives that error.                                                       *)
(***************************************************************************)
C11_StatusReadonly == []C11_NoneAccepted /\ [][C11_ErrorReadonly]_vars

\* The dataset half of C11 alone.
C11_DatasetDump ==
    /\ [](pc \notin {"zscan", "zreturned"} => C11_NoneAccepted)
    /\ [][ (pc \in {"probe", "scan"}) => C11_ErrorReadonly ]_vars

C11_WitnessDataset == ParseFailed /\ err = "expected to be readonly"


\* zpoolParse, turning to a pool whose name its map already has, fails.
C12_ZpoolDuplicateFails ==
    ( pc = "zscan" /\ poolName' # poolName /\ poolName' \in DOMAIN poolProps )
        => ( pc' = "zreturned" /\ ~forest' /\ err' = "duplicate zpool found" )

\* parseGetAll puts the pool it has read into the forest.
StoresPool == pc \in {"probe", "scan"} /\ pool # NoPool /\ pool' = NoPool /\ pc' # "returned"

\* parseGetAll never puts a pool into the forest under a name the forest
\* already has.
C12_NeverReplaced == StoresPool => pool.Name \notin DOMAIN pools

\* A pool root name that comes again in the dataset dump after another
\* pool's datasets fails the parse: the pool started under a name of the
\* forest is never read on.
C12_ReappearanceFails ==
    ( pc = "probe" /\ pc' = "scan" ) => pool'.Name \notin DOMAIN pools

(***************************************************************************)
(* C12.  Duplicate pool names are fatal in both passes: zpoolParse fails   *)
(* with a duplicate-pool error on a pool name that comes again after lines *)
(* of another pool, and parseGetAll fails on a pool root name that comes   *)
(* again after another pool's datasets, and never replaces the pool the    *)
(* forest has under that name.                                             *)
(***************************************************************************)
C12_DuplicatePools ==
    /\ [][C12_ZpoolDuplicateFails]_vars
    /\ [][C12_ReappearanceFails]_vars
    /\ [][C12_NeverReplaced]_vars

\* The pool-properties half of C12 alone.
C12_ZpoolDump == [][C12_ZpoolDuplicateFails]_vars

C12_WitnessZpool == pc = "zreturned" /\ err = "duplicate zpool found"


(***************************************************************************)
(* C13.  parseGetAll returns either a forest, or no forest and an error:   *)
(* whatever fatal condition parsing or resolution meets, and however many  *)
(* pools and datasets it had read, the forest returned is nil and the      *)
(* error is not; nil is never returned for both.                           *)
(***************************************************************************)
C13_FailFast ==
    pc = "returned" =>
        /\ forest => err \in {"nil", "inputEOF"}
        /\ ~forest => err \notin {"nil", "inputEOF", ""}


\* The two control signals, as errors.
Signals == {"inputEOF", "nextPool"}

(***************************************************************************)
(* C14.  The control signals do not leave the dataset-dump parse: it never *)
(* returns the next-pool signal, and when it succeeds it returns the       *)
(* forest with no error, not with the end-of-input signal.                 *)
(***************************************************************************)
C14_NoSignalReturned ==
    pc = "returned" => ( err \notin Signals /\ (forest => err = "nil") )

\* What the code does with the signals: parseGetAll never returns the
\* next-pool signal and returns the forest together with the end-of-input
\* signal, a forest with nothing else and the signal with nothing else;
\* ImportedPools, its caller, returns neither signal, and a forest with no
\* error.
C14_SignalStopsAtImportedPools ==
    /\ pc = "returned" => ( err # "nextPool" /\ (forest <=> err = "inputEOF") )
    /\ pc = "imported" => ( err \notin Signals /\ (forest <=> err = "nil") /\ err # "" )

\* ImportedPools has returned the forest of a dump of two datasets.
C14_Witness ==
    /\ pc = "imported"
    /\ forest
    /\ err = "nil"
    /\ \E pn \in DOMAIN pools : Len(pools[pn].Ordered) >= 2

\* ImportedPools has returned the error of a failed parse.
C14_WitnessError == pc = "imported" /\ ~forest /\ parsed = EmptyMap


\* The places of a command where a pair under the flag letter stands.
PairsAt(c, letter) ==
    { j \in 2..Len(c) : c[j].t = "pair" /\ c[j - 1] = TokOpt(letter) }

(***************************************************************************)
(* C15.  In every synthesized command the pairs taken from one property    *)
(* bag, those under one flag letter, stand in strictly ascending order of  *)
(* property name: the order of the tokens is fixed by the names alone, not *)
(* by the order in which the properties were inserted or iterated.         *)
(***************************************************************************)
C15_SortedFlags ==
    Synthesized(cmd) =>
        \A letter \in {"o", "O"} :
            \A j1, j2 \in PairsAt(cmd.cmdline, letter) :
                j1 < j2 => Pos(cmd.cmdline[j1].s) < Pos(cmd.cmdline[j2].s)

\* A pool command with three pairs from the pool's bag.
C15_Witness ==
    /\ Synthesized(cmd)
    /\ cmd.op = "CreatePoolCommand"
    /\ Cardinality(PairsAt(cmd.cmdline, "o")) >= 3

\* A dataset command with four pairs.
C15_WitnessDataset ==
    /\ Synthesized(cmd)
    /\ cmd.op = "CreateDatasetCommand"
    /\ Cardinality(PairsAt(cmd.cmdline, "o")) >= 4


\* The tokens of c from place a to place b are flag letters of the set
\* letters, each followed by a pair.
LetterPairs(c, a, b, letters) ==
    /\ (b - a + 1) % 2 = 0
    /\ \A j \in a..b :
        IF (j - a) % 2 = 0
        THEN c[j].t = "opt" /\ c[j].s \in letters
        ELSE c[j].t = "pair"

PoolCommandShape(c, name) ==
    /\ Len(c) >= 4
    /\ SubSeq(c, 1, 3) = << TokLit("zpool"), TokLit("create"), TokLit("-d") >>
    /\ c[Len(c)] = TokName(name)
    /\ LetterPairs(c, 4, Len(c) - 1, {"o", "O"})
    /\ \A j1, j2 \in 4..(Len(c) - 1) :
        ( c[j1] = TokOpt("O") /\ c[j2] = TokOpt("o") ) => j2 < j1

DatasetCommandShape(c, name) ==
    /\ Len(c) >= 3
    /\ SubSeq(c, 1, 2) = << TokLit("zfs"), TokLit("create") >>
    /\ c[Len(c)] = TokName(name)
    /\ LetterPairs(c, 3, Len(c) - 1, {"o"})

\* What the command was asked for is not there: the root dataset of the
\* pool, or the dataset named.
NothingToCreate(c) ==
    \/ c.pool \notin DOMAIN pools
    \/ c.name \notin DOMAIN pools[c.pool].Index

(***************************************************************************)
(* C16.  The pool creation command is zpool create -d, the pool's flag     *)
(* pairs under -o, the root dataset's under -O, every -o pair before every *)
(* -O pair, and the pool name; the dataset creation command is zfs create, *)
(* the dataset's flag pairs under -o, and the dataset's full name.  A pool *)
(* whose root dataset is missing, or a name the pool has no dataset for,   *)
(* gives an error and no command.                                          *)
(***************************************************************************)
C16_CommandShape ==
    cmd.op # "" =>
        IF NothingToCreate(cmd)
        THEN cmd.err # "" /\ cmd.cmdline = <<>>
        ELSE /\ cmd.err = ""
             /\ cmd.op = "CreatePoolCommand" => PoolCommandShape(cmd.cmdline, cmd.pool)
             /\ cmd.op = "CreateDatasetCommand" => DatasetCommandShape(cmd.cmdline, cmd.name)

\* A pool command with pairs under both letters.
C16_Witness ==
    /\ Synthesized(cmd)
    /\ cmd.op = "CreatePoolCommand"
    /\ PairsAt(cmd.cmdline, "o") # {}
    /\ PairsAt(cmd.cmdline, "O") # {}

C16_WitnessDataset ==
    /\ Synthesized(cmd)
    /\ cmd.op = "CreateDatasetCommand"
    /\ cmd.name # cmd.pool
    /\ PairsAt(cmd.cmdline, "o") # {}

C16_WitnessMissingRoot == cmd.op = "CreatePoolCommand" /\ cmd.err = "missing root dataset"

C16_WitnessNotFound == cmd.op = "CreateDatasetCommand" /\ cmd.err = "dataset not found"


\* The turn reads the first line of a pool that is not skipped: no pool is
\* open before it, and the parser leaves the place between two pools.
ReadsFirstLineOfPool == pc = "probe" /\ pool = NoPool /\ pc' \notin {"probe", "panic"}

\* What the first line of a pool does when no skipped line comes before it.
FirstLineOutcome(l) ==
    /\ l.kind \in {"row", "bad"}
    /\ l.kind = "bad" => ParseFailed' /\ err' = "unparseable input"
    /\ ( l.kind = "row" /\ isRootDataset(l.set) ) => pc' = "scan" /\ pool' = newPool(l.set)
    /\ ( l.kind = "row" /\ ~isRootDataset(l.set) )
          => ParseFailed' /\ err' = "first dataset in pool is not root"

C17_FirstLineAnywhere == ReadsFirstLineOfPool => FirstLineOutcome(lines'[i' + 1])

\* The same, for a first line that no skipped line precedes.
C17_FirstLineAtOnce == ( ReadsFirstLineOfPool /\ i = 0 ) => FirstLineOutcome(lines'[i' + 1])

C17_NoSnapshotEntity ==
    /\ pool # NoPool => ~ContainsAt(pool.Name) /\ \A n \in DOMAIN pool.Index : ~ContainsAt(n)
    /\ \A pn \in DOMAIN pools :
         ~ContainsAt(pn) /\ \A n \in DOMAIN pools[pn].Index : ~ContainsAt(n)

(***************************************************************************)
(* C17.  Blank lines and snapshot lines are skipped wherever they are in   *)
(* the dataset dump: the first line of a pool that is not skipped does     *)
(* what it does with no skipped line before it (a root dataset opens its   *)
(* pool, another dataset or an unparseable line fails the parse), and no   *)
(* pool or dataset has a snapshot name.                                    *)
(***************************************************************************)
C17_SkippedAnywhere == []C17_NoSnapshotEntity /\ [][C17_FirstLineAnywhere]_vars

\* The part of C17 the code keeps: a first line with no skipped line before
\* it, and no entity for a snapshot.
C17_SkippedAfterFirst == []C17_NoSnapshotEntity /\ [][C17_FirstLineAtOnce]_vars

\* A pool was opened by its first line.
C17_WitnessOpened == pc = "scan" /\ pool # NoPool /\ pool.Ordered = <<>> /\ i = 0

\* parseGetAll returned (nil, nil): lines were dropped unread.
C17_WitnessDropped == pc = "returned" /\ ~forest /\ err = "nil"

\* The end of the input met with no pool open.
EndsWithNoPool == pc = "probe" /\ pool = NoPool /\ i >= Len(lines) /\ nchunks' = nchunks /\ pc' # pc

(***************************************************************************)
(* C18.  A dataset dump of a header and no data line, or only blank and    *)
(* snapshot lines, is valid: the parser reaches the end of the input with  *)
(* an empty forest, reports no failure and does not crash.                 *)
(***************************************************************************)
C18_EmptyDump ==
    [][ EndsWithNoPool
          => /\ pc' \in {"fix", "returned"}
             /\ pc' = "returned" => forest'
             /\ pools' = EmptyMap
             /\ err' \in {"nil", "inputEOF"} ]_vars

\* The crash at the end of an input with no data line.
C18_WitnessCrash == pc = "panic" /\ pool = NoPool /\ pools = EmptyMap /\ first = EmptyMap


\* Property P of dataset s of the parsed forest is one the ancestor pass
\* looks at.
AncestorPassLooksAt(s, P) ==
    LET q == PropertyOf(parsed, s[1], s[2], P)
    IN  /\ ~isRootDataset(s[2])
        /\ q.Source.Location = "Readonly"
        /\ ~StatusOnlyProperty(q)
        /\ P \notin encryptionInheritedProperties

\* What the ancestor pass leaves of property P of dataset s.
AncestorPassResult(s, P) ==
    LET q == PropertyOf(parsed, s[1], s[2], P)
        r == PropertyOf(pools, s[1], s[2], P)
        as == CarryingAncestors(parsed, s[1], s[2], P)
    IN  IF as = {} THEN r = q
        ELSE IF EffectiveValue(parsed, s[1], Nearest(as), P) = q.localValue
        THEN r = [q EXCEPT !.Source = PropertySource("Inherited", Nearest(as),
                                                     Ref(Nearest(as), P))]
        ELSE r = q

(***************************************************************************)
(* C19.  The ancestor pass, property by property: a property P of a        *)
(* non-root dataset D that is ReadOnly, not status-only and outside the    *)
(* encryption-inherited table becomes Inherited from the property of the   *)
(* nearest path-ancestor carrying P when their effective values are equal, *)
(* and stays as parsed when they differ (whatever a farther ancestor has)  *)
(* or when no ancestor carries P.  Outside the encryption-inherited table, *)
(* a property that is Local, Default, Temporary or already Inherited, a    *)
(* status-only property and every property of a root dataset are left as   *)
(* parsed.                                                                 *)
(***************************************************************************)
C19_AncestorPass ==
    Done =>
        \A s \in SetsOf(parsed) :
            \A P \in DOMAIN parsed[s[1]].Index[s[2]].Properties :
                IF AncestorPassLooksAt(s, P) THEN AncestorPassResult(s, P)
                ELSE ( P \notin encryptionInheritedProperties \/ isRootDataset(s[2]) )
                        => PropertyOf(pools, s[1], s[2], P) = PropertyOf(parsed, s[1], s[2], P)

\* The nearest carrying ancestor differs, a farther one is equal: the
\* property stayed ReadOnly.
C19_Witness ==
    /\ Done
    /\ \E s \in SetsOf(parsed) :
        \E P \in DOMAIN parsed[s[1]].Index[s[2]].Properties :
            LET q == PropertyOf(parsed, s[1], s[2], P)
                as == CarryingAncestors(parsed, s[1], s[2], P)
            IN  /\ AncestorPassLooksAt(s, P)
                /\ as # {}
                /\ EffectiveValue(parsed, s[1], Nearest(as), P) # q.localValue
                /\ \E a \in as : EffectiveValue(parsed, s[1], a, P) = q.localValue
                /\ PropertyOf(pools, s[1], s[2], P) = q

\* The nearest carrying ancestor is not the parent, and is equal.
C19_WitnessSkipsParent ==
    /\ Done
    /\ \E s \in SetsOf(parsed) :
        \E P \in DOMAIN parsed[s[1]].Index[s[2]].Properties :
            LET as == CarryingAncestors(parsed, s[1], s[2], P)
            IN  /\ AncestorPassLooksAt(s, P)
                /\ as # {}
                /\ Nearest(as) # Dir(s[2])
                /\ PropertyOf(pools, s[1], s[2], P).Source.Location = "Inherited"

\* A Local property of a non-root dataset with an equal ancestor, left Local.
C19_WitnessLocal ==
    /\ Done
    /\ \E s \in SetsOf(parsed) :
        \E P \in DOMAIN parsed[s[1]].Index[s[2]].Properties :
            LET q == PropertyOf(parsed, s[1], s[2], P)
                as == CarryingAncestors(parsed, s[1], s[2], P)
            IN  /\ q.Source.Location = "Local"
                /\ as # {}
                /\ EffectiveValue(parsed, s[1], Nearest(as), P) = q.localValue
                /\ PropertyOf(pools, s[1], s[2], P) = q


\* Dataset name a comes before dataset name b in the ordered sequence.
Precedes(ordered, a, b) ==
    \E j1, j2 \in 1..Len(ordered) : j1 < j2 /\ ordered[j1] = a /\ ordered[j2] = b

(***************************************************************************)
(* C20.  In every forest parseGetAll returns, the immediate path-parent of *)
(* each non-root dataset comes before the dataset in the ordered sequence  *)
(* of the same pool: a dump that lists a child before its parent gives no  *)
(* forest.                                                                 *)
(***************************************************************************)
C20_ParentFirst ==
    Done =>
        \A pn \in DOMAIN pools :
            \A j \in 1..Len(pools[pn].Ordered) :
                ~isRootDataset(pools[pn].Ordered[j])
                    => Precedes(pools[pn].Ordered, Dir(pools[pn].Ordered[j]),
                                pools[pn].Ordered[j])

\* A forest whose datasets are all after their parents.
C20_WitnessOrdered ==
    /\ Done
    /\ C20_ParentFirst
    /\ \E pn \in DOMAIN pools : Len(pools[pn].Ordered) >= 3


\* Property P of dataset n of pool pn in forest f is linked to the property
\* of the same name of a strict path-ancestor of n in the same pool.
LinkedToAncestor(f, pn, n, P) ==
    LET q == PropertyOf(f, pn, n, P)
    IN  \E a \in DOMAIN f[pn].Index :
            /\ isParent(n, a)
            /\ Carries(f, pn, a, P)
            /\ q.Source.Inherited = Ref(a, P)

(***************************************************************************)
(* C21.  In every forest parseGetAll returns, the inheritedFrom of each    *)
(* Inherited property is the property of the same name of a dataset of the *)
(* same pool that is a strict path-ancestor of the property's dataset,     *)
(* whether the resolver made the link or an "inherited from X" tag did.    *)
(***************************************************************************)
C21_InheritsFromAncestor ==
    Done =>
        \A s \in SetsOf(pools) :
            \A P \in DOMAIN pools[s[1]].Index[s[2]].Properties :
                PropertyOf(pools, s[1], s[2], P).Source.Location = "Inherited"
                    => LinkedToAncestor(pools, s[1], s[2], P)

\* The same of the links the resolver made: the properties whose source is
\* not the one parsing left.
C21_ResolverLinks ==
    Done =>
        \A s \in SetsOf(pools) :
            \A P \in DOMAIN pools[s[1]].Index[s[2]].Properties :
                ( /\ PropertyOf(pools, s[1], s[2], P).Source.Location = "Inherited"
                  /\ PropertyOf(pools, s[1], s[2], P) # PropertyOf(parsed, s[1], s[2], P) )
                    => LinkedToAncestor(pools, s[1], s[2], P)

\* A forest with a property linked by its tag to a dataset that is not an
\* ancestor of its own.
C21_WitnessSideways ==
    /\ Done
    /\ \E s \in SetsOf(pools) :
        \E P \in DOMAIN pools[s[1]].Index[s[2]].Properties :
            LET q == PropertyOf(pools, s[1], s[2], P)
            IN  /\ q.Source.Location = "Inherited"
                /\ q = PropertyOf(parsed, s[1], s[2], P)
                /\ ~isParent(s[2], q.Source.Inherited.set)


\* The turn of the resolver keeps the pools, their datasets and the names
\* of their properties.
KeepsEntities ==
    /\ DOMAIN pools' = DOMAIN pools
    /\ \A pn \in DOMAIN pools :
        /\ pools'[pn].Name = pools[pn].Name
        /\ pools'[pn].Ordered = pools[pn].Ordered
        /\ DOMAIN pools'[pn].Index = DOMAIN pools[pn].Index
        /\ \A n \in DOMAIN pools[pn].Index :
            /\ pools'[pn].Index[n].Name = pools[pn].Index[n].Name
            /\ DOMAIN pools'[pn].Index[n].Properties = DOMAIN pools[pn].Index[n].Properties

\* What the turn of the resolver does to property P of dataset s: q before,
\* r after, q0 as parsing left it.
RewritesOnce(s, P) ==
    LET q0 == PropertyOf(parsed, s[1], s[2], P)
        q == PropertyOf(pools, s[1], s[2], P)
        r == PropertyOf(pools', s[1], s[2], P)
    IN  /\ r.Name = q.Name
        /\ r.localValue = q.localValue
        /\ r.Source # q.Source
             => /\ q = q0
                /\ r.Source.Location = "Inherited"
                /\ r.Source.Inherited # NoRef
        /\ q.Source.Location = "Inherited" => r.Source.Location = "Inherited"

(***************************************************************************)
(* C22.  During one run of fixInheritance no property's name or raw value  *)
(* changes, the source of each property is rewritten at most once, every   *)
(* rewrite makes it Inherited with an inheritedFrom that is not nil, and a *)
(* property that is Inherited, from parsing or from a rewrite, stays       *)
(* Inherited.                                                              *)
(***************************************************************************)
C22_RewrittenOnce ==
    [][ pc = "fix"
          => /\ KeepsEntities
             /\ \A s \in SetsOf(pools) :
                  \A P \in DOMAIN pools[s[1]].Index[s[2]].Properties : RewritesOnce(s, P) ]_vars

\* A run that rewrote a Local property and a ReadOnly one.
C22_Witness ==
    /\ Done
    /\ \E s1, s2 \in SetsOf(parsed) :
        \E P1 \in DOMAIN parsed[s1[1]].Index[s1[2]].Properties,
           P2 \in DOMAIN parsed[s2[1]].Index[s2[2]].Properties :
            /\ PropertyOf(parsed, s1[1], s1[2], P1).Source.Location = "Local"
            /\ PropertyOf(pools, s1[1], s1[2], P1).Source.Location = "Inherited"
            /\ PropertyOf(parsed, s2[1], s2[2], P2).Source.Location = "Readonly"
            /\ PropertyOf(pools, s2[1], s2[2], P2).Source.Location = "Inherited"

\* A property of a dataset linked by parsing, in a run that rewrote another
\* property of the same pool.
C22_WitnessParsedLink ==
    /\ Done
    /\ \E s1, s2 \in SetsOf(parsed) :
        \E P1 \in DOMAIN parsed[s1[1]].Index[s1[2]].Properties,
           P2 \in DOMAIN parsed[s2[1]].Index[s2[2]].Properties :
            /\ PropertyOf(parsed, s1[1], s1[2], P1).Source.Location = "Inherited"
            /\ PropertyOf(pools, s2[1], s2[2], P2) # PropertyOf(parsed, s2[1], s2[2], P2)


\* The effective value of property P of dataset s is, in the forest
\* returned, what it was right after parsing.
SameEffectiveValue(s, P) ==
    EffectiveValue(pools, s[1], s[2], P) = EffectiveValue(parsed, s[1], s[2], P)

(***************************************************************************)
(* C23.  Resolution keeps the effective value of every property whose name *)
(* is outside the encryption-inherited table: in the forest returned it is *)
(* what it was right after parsing.  The properties of the pools are not   *)
(* touched.                                                                *)
(***************************************************************************)
C23_ValuePreserved ==
    Done =>
        /\ \A s \in SetsOf(parsed) :
             \A P \in DOMAIN parsed[s[1]].Index[s[2]].Properties \ encryptionInheritedProperties :
                 SameEffectiveValue(s, P)
        /\ \A pn \in DOMAIN parsed : pools[pn].Properties = parsed[pn].Properties

\* The same of the forests in which parsing left no link to a dataset that
\* is not an ancestor.
C23_ValuePreservedAncestorLinks ==
    ( /\ Done
      /\ \A s \in SetsOf(parsed) :
           \A P \in DOMAIN parsed[s[1]].Index[s[2]].Properties :
               PropertyOf(parsed, s[1], s[2], P).Source.Location = "Inherited"
                   => LinkedToAncestor(parsed, s[1], s[2], P) )
    => C23_ValuePreserved

\* A property the resolver linked, with the value it had.
C23_WitnessLinked ==
    /\ Done
    /\ \E s \in SetsOf(parsed) :
        \E P \in DOMAIN parsed[s[1]].Index[s[2]].Properties \ encryptionInheritedProperties :
            /\ PropertyOf(pools, s[1], s[2], P) # PropertyOf(parsed, s[1], s[2], P)
            /\ SameEffectiveValue(s, P)
            /\ pools[s[1]].Properties # EmptyMap

====
